---------------------------- MODULE Spec2Model ----------------------------
(* Model of the HNL sqlfluff plugin rules                                  *)
(*   Rule_HNL_A001  (column alias usage)      rules.py 19-194              *)
(*   Rule_HNL_A002  (column ordering)         rules.py 195-324             *)
(*   custom_sort_key                          rules.py 326-341             *)
(*                                                                         *)
(* A select_clause is a sequence of select_clause_element records.  An     *)
(* optional child segment is a sequence of length 0 or 1; the children of  *)
(* one type are a sequence of raw strings in document order.               *)
EXTENDS Integers, Sequences, FiniteSets, TLC

VARIABLES alias_usage_style, memory, file, results, phase, fixed, rerun,
          stmt, ordering, lint

vars == <<alias_usage_style, memory, file, results, phase, fixed, rerun,
          stmt, ordering, lint>>

-----------------------------------------------------------------------------
(* Bounds of the model                                                     *)

\* columns of all select clauses of a file in the alias pass
MaxFileCols == 4
\* select clauses visited in one file pass
MaxVisits == 2
\* columns per select clause in the ordering evaluation
MaxOrderCols == 3
\* comments in the statement enclosing the select clause
MaxComments == 1
\* columns per select clause when both rules look at one clause
MaxLintCols == 3

-----------------------------------------------------------------------------
(* Python values                                                           *)

\* Python's None, for the string-valued locals of the rules
None == "None"

\* a local that has not been assigned yet
Unbound == "<unbound>"

\* the printable ASCII characters in code-point order, from 32 to 126; the
\* backquote (code 96) has no TLA+ string literal: in every string of the model
\* a tab stands for it, and no raw text contains a real tab
Ascii == " !\"#$%&'()*+,-./0123456789:;<=>?@ABCDEFGHIJKLMNOPQRSTUVWXYZ[\\]^_\tabcdefghijklmnopqrstuvwxyz{|}~"

\* the i-th character of a string, as a string of length one
CharAt(s, i) == SubSeq(s, i, i)

\* the code points of the printable ASCII characters
CodePoints == [c \in {CharAt(Ascii, i) : i \in 1..Len(Ascii)} |->
                 31 + (CHOOSE i \in 1..Len(Ascii) : CharAt(Ascii, i) = c)]

\* ord(c) for a printable ASCII character
Ord(c) == CodePoints[c]

\* the lower-case forms of the printable ASCII characters: A-Z (65 to 90) map
\* to a-z (97 to 122), the rest is kept
LowerCase == [c \in DOMAIN CodePoints |->
                IF CodePoints[c] >= 65 /\ CodePoints[c] <= 90
                THEN CharAt(Ascii, CodePoints[c] + 32 - 31) ELSE c]

\* str.lower() on one character
LowerChar(c) == LowerCase[c]

RECURSIVE Lower(_)
\* str.lower()
Lower(s) == IF s = "" THEN "" ELSE LowerChar(CharAt(s, 1)) \o Lower(SubSeq(s, 2, Len(s)))

\* str.startswith(prefix)
StartsWith(s, prefix) == Len(s) >= Len(prefix) /\ SubSeq(s, 1, Len(prefix)) = prefix

\* str.endswith(suffix)
EndsWith(s, suffix) == Len(s) >= Len(suffix) /\ SubSeq(s, Len(s) - Len(suffix) + 1, Len(s)) = suffix

\* whether character c occurs in the string chars
InChars(c, chars) == \E i \in 1..Len(chars) : CharAt(chars, i) = c

RECURSIVE LStrip(_, _)
\* str.lstrip(chars)
LStrip(s, chars) == IF s # "" /\ InChars(CharAt(s, 1), chars) THEN LStrip(SubSeq(s, 2, Len(s)), chars) ELSE s

RECURSIVE RStrip(_, _)
\* str.rstrip(chars)
RStrip(s, chars) == IF s # "" /\ InChars(CharAt(s, Len(s)), chars) THEN RStrip(SubSeq(s, 1, Len(s) - 1), chars) ELSE s

\* str.strip(chars)
Strip(s, chars) == RStrip(LStrip(s, chars), chars)

RECURSIVE StrLess(_, _)
\* a < b on Python strings: lexicographic by code point
StrLess(a, b) ==
    IF b = "" THEN FALSE
    ELSE IF a = "" THEN TRUE
    ELSE IF CharAt(a, 1) # CharAt(b, 1) THEN Ord(CharAt(a, 1)) < Ord(CharAt(b, 1))
    ELSE StrLess(SubSeq(a, 2, Len(a)), SubSeq(b, 2, Len(b)))

-----------------------------------------------------------------------------
(* Segments                                                                *)

\* segment.get_child(type): the first child of the type, or nothing
GetChild(children) == IF children = <<>> THEN <<>> ELSE <<children[1]>>

\* a segment or a list is truthy when it is there
Truthy(opt) == opt # <<>>

\* a reference-like segment: its quoted_identifier and naked_identifier children
Ref(quoted, naked) == [quoted_identifier |-> quoted, naked_identifier |-> naked]

\* a select_clause_element: node identity, start line, optional column_reference
\* and optional alias_expression
Element(node, line, column, alias) ==
    [node |-> node, line |-> line, column_reference |-> column, alias_expression |-> alias]

\* the five characters stripped from an identifier's raw text (rules.py 304):
\* double quote, single quote, backquote (written as a tab, see Ascii) and the
\* two square brackets
QuoteChars == "\"'\t[]"

-----------------------------------------------------------------------------
(* Rule_HNL_A001._eval                                                     *)

\* context.memory with nothing stored
EmptyMemory == [k \in {} |-> None]

\* dict.get(key): the stored value or None
MemGet(m, key) == IF key \in DOMAIN m THEN m[key] ELSE None

\* dict[key] = value
MemSet(m, key, value) == [k \in (DOMAIN m) \cup {key} |-> IF k = key THEN value ELSE m[k]]

\* InitialAliasUsage with the stored decision never read
InitialAliasUsage_NeverReads(style, mem) ==
    IF style = "always" THEN "yes" ELSE None

\* InitialAliasUsage with the stored decision read under consistent_clause too
InitialAliasUsage_ClauseReads(style, mem) ==
    IF style \in {"consistent_file", "consistent_clause"} THEN MemGet(mem, "alias_usage")
    ELSE IF style = "always" THEN "yes"
    ELSE None

\* InitialAliasUsage with the decision deduced under always as well
InitialAliasUsage_AlwaysDeduces(style, mem) ==
    IF style = "consistent_file" THEN MemGet(mem, "alias_usage") ELSE None

\* the alias usage before the first column of a clause (rules.py 112-116)
InitialAliasUsage(style, mem) ==
    IF style = "consistent_file" THEN MemGet(mem, "alias_usage")
    ELSE IF style = "always" THEN "yes"
    ELSE None

\* the alias usage deduced from one column (rules.py 124-126)
DeducedAliasUsage(element) == IF Truthy(element.alias_expression) THEN "yes" ELSE "no"

\* the column does not deviate from the expected alias usage (rules.py 130)
Conforms(alias_usage, element) ==
    \/ alias_usage = "yes" /\ Truthy(element.alias_expression)
    \/ alias_usage = "no" /\ ~Truthy(element.alias_expression)

\* the identifier segment of a column reference: the quoted identifier if there
\* is one, otherwise the last naked identifier (rules.py 154-157, 296-299)
ColumnIdentifier(column) ==
    IF Truthy(GetChild(column.quoted_identifier))
    THEN [type |-> "quoted_identifier", raw |-> column.quoted_identifier[1]]
    ELSE [type |-> "naked_identifier", raw |-> column.naked_identifier[Len(column.naked_identifier)]]

\* Fixes with no edit for an alias that has to go
Fixes_NoDelete(alias_usage, element) ==
    IF alias_usage = "yes" /\ Truthy(element.column_reference)
    THEN LET column_reference == element.column_reference[1] IN
         IF Truthy(GetChild(column_reference.naked_identifier)) \/ Truthy(GetChild(column_reference.quoted_identifier))
         THEN <<[kind |-> "create_after", target |-> "column_reference",
                 identifier |-> <<ColumnIdentifier(column_reference)>>]>>
         ELSE <<>>
    ELSE <<>>

\* Fixes with the delete edit for a column that lacks its alias
Fixes_WrongEdit(alias_usage, element) ==
    IF alias_usage = "yes" /\ ~Truthy(element.column_reference) THEN <<>>
    ELSE IF alias_usage = "yes" /\ element.column_reference[1] = Ref(<<>>, <<>>) THEN <<>>
    ELSE <<[kind |-> "delete", target |-> "alias_expression", identifier |-> <<>>]>>

\* the fixes of a deviating column (rules.py 134-171)
Fixes(alias_usage, element) ==
    IF alias_usage = "yes" /\ Truthy(element.column_reference)
    THEN LET column_reference == element.column_reference[1] IN
         IF Truthy(GetChild(column_reference.naked_identifier)) \/ Truthy(GetChild(column_reference.quoted_identifier))
         THEN <<[kind |-> "create_after", target |-> "column_reference",
                 identifier |-> <<ColumnIdentifier(column_reference)>>]>>
         ELSE <<>>
    ELSE IF alias_usage = "no"
    THEN IF Truthy(element.alias_expression)
         THEN <<[kind |-> "delete", target |-> "alias_expression", identifier |-> <<>>]>>
         ELSE <<>>
    ELSE <<>>

\* Description with a text for every other setting
Description_Default(style, description) ==
    IF style = "consistent_file" THEN "Column alias usage should be consistent within file."
    ELSE IF style = "consistent_clause" THEN "Column alias usage should be consistent within clause."
    ELSE "Column should always use an alias."

\* the description local after the if/elif of rules.py 173-183; description is
\* the value the local had before
Description(style, description) ==
    IF style = "consistent_file" THEN "Column alias usage should be consistent within file."
    ELSE IF style = "consistent_clause" THEN "Column alias usage should be consistent within clause."
    ELSE IF style = "always" THEN "Column should always use an alias."
    ELSE description

\* one iteration of the loop over the select clause elements (rules.py 118-192);
\* st holds the locals alias_usage, description, violations, the memory dict,
\* whether an UnboundLocalError has ended the call and on which element
LoopBody(style, element, st) ==
    IF st.raised THEN st
    ELSE LET deduce == st.alias_usage = None
             alias_usage == IF deduce THEN DeducedAliasUsage(element) ELSE st.alias_usage
             mem == IF deduce THEN MemSet(st.memory, "alias_usage", alias_usage) ELSE st.memory
             description == Description(style, st.description)
         IN IF Conforms(alias_usage, element)
            THEN [st EXCEPT !.alias_usage = alias_usage, !.memory = mem]
            ELSE IF description = Unbound
            THEN [st EXCEPT !.alias_usage = alias_usage, !.memory = mem, !.raised = TRUE,
                            !.raised_at = <<element.node>>]
            ELSE [st EXCEPT !.alias_usage = alias_usage, !.memory = mem,
                            !.description = description,
                            !.violations = Append(@, [anchor |-> element.node,
                                                      description |-> description,
                                                      fixes |-> Fixes(alias_usage, element)])]

RECURSIVE Loop(_, _, _, _)
\* the loop over the elements from index i on
Loop(style, clause, i, st) ==
    IF i > Len(clause) THEN st ELSE Loop(style, clause, i + 1, LoopBody(style, clause[i], st))

\* Rule_HNL_A001._eval on one select clause with the given memory: the memory
\* afterwards, whether the call raised and on which element, and the list
\* returned (violations or None: is_none tells the two apart)
A001Eval(style, mem, clause) ==
    LET st == Loop(style, clause, 1,
                   [alias_usage |-> InitialAliasUsage(style, mem), memory |-> mem,
                    description |-> Unbound, violations |-> <<>>, raised |-> FALSE,
                    raised_at |-> <<>>])
    IN [memory |-> st.memory,
        raised |-> st.raised,
        raised_at |-> st.raised_at,
        is_none |-> ~st.raised /\ st.violations = <<>>,
        violations |-> IF st.raised THEN <<>> ELSE st.violations]

\* the evaluator called on each select clause of a file in document order, the
\* memory dict threaded from one call to the next; the results from clause i on
RECURSIVE RunPass(_, _, _, _)
RunPass(style, clauses, i, mem) ==
    IF i > Len(clauses) THEN <<>>
    ELSE LET r == A001Eval(style, mem, clauses[i])
         IN <<r>> \o RunPass(style, clauses, i + 1, r.memory)

-----------------------------------------------------------------------------
(* Rule_HNL_A002._eval and custom_sort_key                                 *)

\* the comment texts that take a line out of the ordering check (rules.py 279)
NoqaTexts == {"-- noqa", "-- noqa: HNL_A002"}

\* LinePositionsToIgnore with the bare `-- noqa` not recognised
LinePositionsToIgnore_RuleOnly(comments) ==
    {c.line : c \in {d \in comments : d.raw = "-- noqa: HNL_A002"}}

\* the lines of the comments of the enclosing statement that carry one of the
\* noqa texts (rules.py 276-280); the source keeps a list and only asks for
\* membership
LinePositionsToIgnore(comments) == {c.line : c \in {d \in comments : d.raw \in NoqaTexts}}

\* `a or b` on optional segments
OrElse(a, b) == IF Truthy(a) THEN a ELSE b

\* the raw text of the identifier segment of a select clause element, or
\* nothing (rules.py 287-299)
IdentifierOf(element) ==
    IF Truthy(element.alias_expression)
    THEN LET alias_expression == element.alias_expression[1] IN
         OrElse(GetChild(alias_expression.naked_identifier), GetChild(alias_expression.quoted_identifier))
    ELSE IF Truthy(element.column_reference)
    THEN LET column == element.column_reference[1] IN
         IF Truthy(GetChild(column.naked_identifier)) \/ Truthy(GetChild(column.quoted_identifier))
         THEN <<ColumnIdentifier(column).raw>>
         ELSE <<>>
    ELSE <<>>

RECURSIVE Identifiers_NoSkip(_, _, _)
\* Identifiers with a column without identifier kept under the empty name
Identifiers_NoSkip(clause, ignore, i) ==
    IF i > Len(clause) THEN <<>>
    ELSE LET identifier == IdentifierOf(clause[i])
             rest == Identifiers_NoSkip(clause, ignore, i + 1)
             name == IF Truthy(identifier) THEN Strip(identifier[1], QuoteChars) ELSE ""
         IN IF clause[i].line \notin ignore
            THEN <<<<name, clause[i].node>>>> \o rest
            ELSE rest

RECURSIVE Identifiers(_, _, _)
\* the list identifiers after the loop over the elements from index i on
\* (rules.py 282-308): pairs of stripped identifier and element
Identifiers(clause, ignore, i) ==
    IF i > Len(clause) THEN <<>>
    ELSE LET identifier == IdentifierOf(clause[i])
             rest == Identifiers(clause, ignore, i + 1)
         IN IF ~Truthy(identifier) THEN rest
            ELSE IF clause[i].line \notin ignore
            THEN <<<<Strip(identifier[1], QuoteChars), clause[i].node>>>> \o rest
            ELSE rest

\* the sort priority of an identifier (rules.py 330-339)
Priority(raw_string) ==
    IF StartsWith(raw_string, "BK") THEN 0
    ELSE IF EndsWith(raw_string, "ID") THEN 1
    ELSE IF raw_string \in {"BKSourceSystem", "SourceSystemID"} THEN 2
    ELSE IF raw_string = "SourceSystemCode" THEN 4
    ELSE 3

\* the sort key of an (identifier, element) pair (rules.py 326-341)
custom_sort_key(item) == <<Priority(item[1]), Lower(item[1])>>

\* k1 < k2 on the key tuples
KeyLess(k1, k2) == k1[1] < k2[1] \/ (k1[1] = k2[1] /\ StrLess(k1[2], k2[2]))

\* InsertSorted with the item put in front of the elements of equal key: the
\* sort is no longer stable
InsertSorted_Unstable(sorted, keyed) ==
    LET after == {j \in 1..Len(sorted) : ~KeyLess(sorted[j].key, keyed.key)}
        pos == IF after = {} THEN Len(sorted) + 1 ELSE CHOOSE j \in after : \A k \in after : j <= k
    IN SubSeq(sorted, 1, pos - 1) \o <<keyed>> \o SubSeq(sorted, pos, Len(sorted))

\* an item with its key put into a sorted list of such, behind every element
\* whose key is not greater
InsertSorted(sorted, keyed) ==
    LET after == {j \in 1..Len(sorted) : KeyLess(keyed.key, sorted[j].key)}
        pos == IF after = {} THEN Len(sorted) + 1 ELSE CHOOSE j \in after : \A k \in after : j <= k
    IN SubSeq(sorted, 1, pos - 1) \o <<keyed>> \o SubSeq(sorted, pos, Len(sorted))

RECURSIVE InsertionSort(_, _)
\* the first n items of a list of items with keys, sorted by key, equal keys in
\* their order of the list
InsertionSort(keyed, n) ==
    IF n = 0 THEN <<>> ELSE InsertSorted(InsertionSort(keyed, n - 1), keyed[n])

\* sorted(items, key=custom_sort_key): the key is computed once per item and
\* the sort is stable (rules.py 311)
SortedByKey(items) ==
    LET keyed == [i \in 1..Len(items) |-> [key |-> custom_sort_key(items[i]), item |-> items[i]]]
        sorted == InsertionSort(keyed, Len(items))
    IN [i \in 1..Len(items) |-> sorted[i].item]

\* the pairs that are not at their index of the sorted list (rules.py 314)
ChangedIdentifiers(identifiers, sorted_identifiers) ==
    LET changed == {i \in 1..Len(identifiers) : identifiers[i] # sorted_identifiers[i]}
    IN [k \in 1..Cardinality(changed) |->
           identifiers[CHOOSE i \in changed : Cardinality({j \in changed : j <= i}) = k]]

\* Rule_HNL_A002._eval on one select clause and the comments of its statement:
\* the list of LintResults returned (rules.py 251-324)
A002Eval(clause, comments) ==
    LET identifiers == Identifiers(clause, LinePositionsToIgnore(comments), 1)
        sorted_identifiers == SortedByKey(identifiers)
        changed_identifiers == ChangedIdentifiers(identifiers, sorted_identifiers)
    IN [k \in 1..Len(changed_identifiers) |->
           [anchor |-> changed_identifiers[k][2],
            description |-> "Column should be ordered based on ordering scheme."]]

-----------------------------------------------------------------------------
(* The edits of a LintResult applied to the clause                         *)

\* LintFix.create_after(column_reference, [" ", AS, " ", identifier]) gives the
\* element an alias_expression holding the identifier; LintFix.delete removes
\* the alias_expression
ApplyFix(element, fix) ==
    IF fix.kind = "create_after"
    THEN LET id == fix.identifier[1] IN
         [element EXCEPT !.alias_expression =
            <<Ref(IF id.type = "quoted_identifier" THEN <<id.raw>> ELSE <<>>,
                  IF id.type = "naked_identifier" THEN <<id.raw>> ELSE <<>>)>>]
    ELSE [element EXCEPT !.alias_expression = <<>>]

\* every fix of every LintResult anchored on an element of the clause, applied
ApplyFixes(clause, violations) ==
    [i \in 1..Len(clause) |->
        IF \E v \in 1..Len(violations) :
              violations[v].anchor = clause[i].node /\ violations[v].fixes # <<>>
        THEN LET v == CHOOSE w \in 1..Len(violations) :
                         violations[w].anchor = clause[i].node /\ violations[w].fixes # <<>>
             IN ApplyFix(clause[i], violations[v].fixes[1])
        ELSE clause[i]]

-----------------------------------------------------------------------------
(* Inputs of the alias pass                                                *)

\* the values of the alias_usage_style setting: the three policies and one
\* value that is none of them
Styles == {"always", "consistent_clause", "consistent_file", "unset"}

\* `t.col_a`
SimpleColumn == [column_reference |-> <<Ref(<<>>, <<"t", "col_a">>)>>, alias_expression |-> <<>>]

\* `t.col_a AS col_a`
AliasedColumn == [column_reference |-> <<Ref(<<>>, <<"t", "col_a">>)>>,
                  alias_expression |-> <<Ref(<<>>, <<"col_a">>)>>]

\* `SUM(t.col_a)`: an expression, no column_reference child
ExpressionColumn == [column_reference |-> <<>>, alias_expression |-> <<>>]

\* `$1`: a column_reference without naked or quoted identifier
PositionalColumn == [column_reference |-> <<Ref(<<>>, <<>>)>>, alias_expression |-> <<>>]

\* the column shapes of the alias pass
AliasShapes == {SimpleColumn, AliasedColumn, ExpressionColumn, PositionalColumn}

\* all sequences over S of length at most n
SeqsUpTo(S, n) == UNION {[1..k -> S] : k \in 0..n}

\* a select clause from a sequence of shapes: element i is node i on line i
MakeClause(shapes) ==
    [i \in 1..Len(shapes) |->
        Element(i, i, shapes[i].column_reference, shapes[i].alias_expression)]

\* the select clauses of the alias pass with at most n columns
AliasClauses(n) == {MakeClause(sh) : sh \in SeqsUpTo(AliasShapes, n)}

RECURSIVE FileCols(_)
\* the number of columns in the clauses of a file
FileCols(clauses) == IF clauses = <<>> THEN 0 ELSE Len(Head(clauses)) + FileCols(Tail(clauses))

-----------------------------------------------------------------------------
(* The file pass of Rule_HNL_A001                                          *)

Init ==
    /\ alias_usage_style \in Styles
    /\ memory = EmptyMemory
    /\ file = <<>>
    /\ results = <<>>
    /\ phase = "lint"
    /\ fixed = <<>>
    /\ rerun = <<>>
    /\ stmt = <<>>
    /\ ordering = <<>>
    /\ lint = <<>>

\* the crawler visits the next select clause of the file and calls _eval with
\* the memory of the pass
Visit(clause) ==
    /\ phase = "lint"
    /\ Len(file) < MaxVisits
    /\ LET r == A001Eval(alias_usage_style, memory, clause) IN
        /\ memory' = r.memory
        /\ file' = Append(file, clause)
        /\ results' = Append(results, r)
    /\ UNCHANGED <<alias_usage_style, phase, fixed, rerun, stmt, ordering, lint>>

\* the fixes of the pass are applied and the fixed file is linted again with a
\* new memory
FixAndRerun ==
    /\ phase = "lint"
    /\ file # <<>>
    /\ \A i \in 1..Len(results) : ~results[i].raised
    /\ LET f == [i \in 1..Len(file) |-> ApplyFixes(file[i], results[i].violations)] IN
        /\ fixed' = f
        /\ rerun' = RunPass(alias_usage_style, f, 1, EmptyMemory)
    /\ phase' = "fixed"
    /\ UNCHANGED <<alias_usage_style, memory, file, results, stmt, ordering, lint>>

Next ==
    \/ \E clause \in AliasClauses(MaxFileCols - FileCols(file)) : Visit(clause)
    \/ FixAndRerun

Spec == Init /\ [][Next]_vars

-----------------------------------------------------------------------------
(* Properties of the alias pass                                            *)

\* the element carries an alias
HasAlias(element) == element.alias_expression # <<>>

\* the anchors of a list of LintResults, in order
Anchors(violations) == [k \in 1..Len(violations) |-> violations[k].anchor]

\* the nodes of the elements of a clause that carry an alias (or not), in order
NodesWithAlias(clause, aliased) ==
    LET sel == SelectSeq(clause, LAMBDA e : HasAlias(e) = aliased)
    IN [k \in 1..Len(sel) |-> sel[k].node]

RECURSIVE Flatten(_)
\* the columns of the clauses of a file in document order
Flatten(clauses) == IF clauses = <<>> THEN <<>> ELSE Head(clauses) \o Flatten(Tail(clauses))

\* the memory dicts a call can be handed
MemoryValues == {EmptyMemory, MemSet(EmptyMemory, "alias_usage", "yes"),
                 MemSet(EmptyMemory, "alias_usage", "no")}

\* the memory that holds the decision of the first column of the clauses, if any
FirstColumnMemory(clauses) ==
    LET columns == Flatten(clauses) IN
    IF columns = <<>> THEN EmptyMemory
    ELSE MemSet(EmptyMemory, "alias_usage", IF HasAlias(columns[1]) THEN "yes" ELSE "no")

\* C1: under consistent_file the memory after every clause visit holds the
\* decision set by the first column encountered in the file (nothing while no
\* column has been seen): a stored decision is never changed by a later visit.
C1_FileDecisionImmutable ==
    alias_usage_style = "consistent_file" =>
        /\ \A n \in 1..Len(results) : results[n].memory = FirstColumnMemory(SubSeq(file, 1, n))
        /\ memory = FirstColumnMemory(file)

\* C1 witness: the first clause stored "no", the second clause starts with an
\* aliased column and the stored decision is still "no".
C1_Witness ==
    /\ alias_usage_style = "consistent_file"
    /\ Len(file) = 2
    /\ file[1] # <<>> /\ ~HasAlias(file[1][1])
    /\ file[2] # <<>> /\ HasAlias(file[2][1])
    /\ results[1].memory = MemSet(EmptyMemory, "alias_usage", "no")
    /\ memory = MemSet(EmptyMemory, "alias_usage", "no")

\* the premise of C2: two clauses visited under consistent_file, the first
\* column of the first clause without alias
C2_Premise ==
    /\ alias_usage_style = "consistent_file"
    /\ Len(file) >= 2
    /\ file[1] # <<>>
    /\ ~HasAlias(file[1][1])

\* the LintResult of a column whose alias is to be removed
RemoveAliasResult(node) ==
    [anchor |-> node,
     description |-> "Column alias usage should be consistent within file.",
     fixes |-> <<[kind |-> "delete", target |-> "alias_expression", identifier |-> <<>>]>>]

\* C2 as stated: when the first column of the first clause has no alias, every
\* column of both clauses without alias is flagged and every column with an
\* alias is flagged with a remove-alias fix.
C2_AsStated ==
    C2_Premise =>
        \A n \in 1..2 : \A i \in 1..Len(file[n]) :
            \E v \in 1..Len(results[n].violations) :
                /\ results[n].violations[v].anchor = file[n][i].node
                /\ HasAlias(file[n][i]) => results[n].violations[v] = RemoveAliasResult(file[n][i].node)

\* C2 amended: when the first column of the first clause has no alias, in both
\* clauses no column without alias is flagged and exactly the columns with an
\* alias are flagged, each with a remove-alias fix: the decision of clause 1
\* governs clause 2.
C2_NoAliasDecisionGoverns ==
    C2_Premise =>
        \A n \in 1..2 :
            /\ ~results[n].raised
            /\ results[n].violations =
                 [k \in 1..Len(NodesWithAlias(file[n], TRUE)) |->
                     RemoveAliasResult(NodesWithAlias(file[n], TRUE)[k])]

\* C2 witness: the second clause starts with an aliased column, which is
\* flagged for removal, and holds an un-aliased column, which is not.
C2_Witness ==
    /\ C2_Premise
    /\ Len(file[2]) = 2
    /\ HasAlias(file[2][1]) /\ ~HasAlias(file[2][2])
    /\ Anchors(results[2].violations) = <<file[2][1].node>>

\* the nodes of the columns of a clause whose alias presence differs from that
\* of the first column of the clause
NodesUnlikeFirst(clause) ==
    IF clause = <<>> THEN <<>> ELSE NodesWithAlias(clause, ~HasAlias(clause[1]))

\* C3: under consistent_clause the violations of a clause depend on that clause
\* only: exactly the columns whose alias presence differs from that of the
\* first column of the same clause are flagged, whatever the memory holds and
\* whatever was visited before.
C3_ClauseDecisionIsLocal ==
    alias_usage_style = "consistent_clause" =>
        \A n \in 1..Len(file) :
            /\ ~results[n].raised
            /\ Anchors(results[n].violations) = NodesUnlikeFirst(file[n])
            /\ \A m \in MemoryValues :
                  A001Eval(alias_usage_style, m, file[n]).violations = results[n].violations

\* C3 witness: a clause with every column aliased, then a clause with no column
\* aliased, and no violation in either.
C3_Witness ==
    /\ alias_usage_style = "consistent_clause"
    /\ Len(file) = 2
    /\ Len(file[1]) = 2 /\ \A i \in 1..2 : HasAlias(file[1][i])
    /\ Len(file[2]) = 2 /\ \A i \in 1..2 : ~HasAlias(file[2][i])
    /\ results[1].is_none /\ results[2].is_none

\* C5: under always the violations of a clause are exactly one per column
\* without alias, in order, whatever the first column is and whatever the
\* memory holds.
C5_AlwaysFlagsEveryUnaliased ==
    alias_usage_style = "always" =>
        \A n \in 1..Len(file) :
            /\ ~results[n].raised
            /\ Anchors(results[n].violations) = NodesWithAlias(file[n], FALSE)
            /\ \A m \in MemoryValues :
                  A001Eval(alias_usage_style, m, file[n]).violations = results[n].violations

\* C5 witness: three columns without alias give three violations, one per
\* column, the first column among them.
C5_Witness ==
    /\ alias_usage_style = "always"
    /\ \E n \in 1..Len(file) :
        /\ Len(file[n]) = 3
        /\ \A i \in 1..3 : ~HasAlias(file[n][i])
        /\ Anchors(results[n].violations) = <<1, 2, 3>>

\* every violation of the pass carries a fix
EveryViolationHasFix ==
    \A n \in 1..Len(results) : \A v \in 1..Len(results[n].violations) :
        results[n].violations[v].fixes # <<>>

\* the second lint, of the fixed file, reports nothing
RerunIsClean == \A n \in 1..Len(rerun) : ~rerun[n].raised /\ rerun[n].violations = <<>>

\* C4 as stated: after all fixes are applied, linting the fixed file with a new
\* memory gives no violation, for every policy and every file.
C4_AsStated == phase = "fixed" => RerunIsClean

\* C4 amended: after all fixes are applied, linting the fixed file with a new
\* memory gives no violation, provided every violation of the first lint
\* carried a fix.
C4_IdempotentWhenAllFixed == (phase = "fixed" /\ EveryViolationHasFix) => RerunIsClean

\* C4 witness: a first lint with an add-alias fix in one clause and a
\* remove-alias fix in another, and a clean second lint.
C4_Witness ==
    /\ phase = "fixed"
    /\ EveryViolationHasFix
    /\ \E n \in 1..Len(results) : \E v \in 1..Len(results[n].violations) :
          results[n].violations[v].fixes[1].kind = "create_after"
    /\ \E n \in 1..Len(results) : \E v \in 1..Len(results[n].violations) :
          results[n].violations[v].fixes[1].kind = "delete"
    /\ RerunIsClean

\* C10: when alias_usage_style is none of the three policies the decision is
\* deduced from the first column of each clause; a clause with no deviating
\* column returns None, a clause with a deviating column raises at the first
\* deviating column and returns nothing; and under no setting is a LintResult
\* with an unbound description returned.
C10_UnknownStyleRaises ==
    /\ alias_usage_style \notin {"always", "consistent_clause", "consistent_file"} =>
        \A n \in 1..Len(file) :
            /\ file[n] # <<>> => results[n].memory = FirstColumnMemory(<<file[n]>>)
            /\ results[n].violations = <<>>
            /\ IF NodesUnlikeFirst(file[n]) = <<>>
               THEN ~results[n].raised /\ results[n].is_none
               ELSE results[n].raised /\ results[n].raised_at = <<NodesUnlikeFirst(file[n])[1]>>
    /\ \A n \in 1..Len(results) : \A v \in 1..Len(results[n].violations) :
          results[n].violations[v].description # Unbound

\* C10 witness: under the unknown setting one clause was consistent and
\* returned None, another had a deviating second column and raised there.
C10_Witness ==
    /\ alias_usage_style = "unset"
    /\ Len(file) = 2
    /\ Len(file[1]) = 2 /\ results[1].is_none
    /\ Len(file[2]) = 2 /\ results[2].raised /\ results[2].raised_at = <<2>>

-----------------------------------------------------------------------------
(* Rule_HNL_A002 on one select clause                                      *)

\* a column that is the bare reference `name`
Named(name) == [column_reference |-> <<Ref(<<>>, <<name>>)>>, alias_expression |-> <<>>]

\* the column shapes of the ordering evaluation
OrderShapes ==
    {Named("BKSourceSystem"), Named("BKZone"), Named("SourceSystemID"),
     Named("AmountInvoiced"), Named("amountinvoiced"), Named("SourceSystemCode")}

\* the select clause of the anti-pattern in the rule's documentation
\* (rules.py 221-227)
AntiPattern ==
    MakeClause(<<Named("AmountInvoiced"), Named("SourceSystemCode"), Named("InvoicedDate"),
                 Named("BKSourceSystem"), Named("BKInvoicedDate")>>)

\* a column that is the quoted identifier with the given raw text
Quoted(raw) == [column_reference |-> <<Ref(<<raw>>, <<>>)>>, alias_expression |-> <<>>]

\* select clauses of identifiers quoted with backquotes (the tab of Ascii),
\* square brackets and double quotes
QuotedClauses ==
    {MakeClause(<<Quoted("\tBKZone\t"), Quoted("\tAmountInvoiced\t")>>),
     MakeClause(<<Quoted("\tAmountInvoiced\t"), Quoted("\tBKZone\t")>>),
     MakeClause(<<Quoted("[\tAmountInvoiced\t]"), Quoted("\"ZoneID\""), Quoted("[BKZone]")>>)}

\* the select clauses of the ordering evaluation
OrderClauses ==
    {MakeClause(sh) : sh \in SeqsUpTo(OrderShapes, MaxOrderCols)} \cup {AntiPattern} \cup QuotedClauses

\* the comment texts of the ordering evaluation
CommentTexts == {"-- noqa", "-- noqa: HNL_A002", "-- noqa: HNL_A001"}

\* the sets of at most MaxComments comments on the lines of the clause
CommentSets(clause) ==
    {cs \in SUBSET [raw : CommentTexts, line : 1..Len(clause)] : Cardinality(cs) <= MaxComments}

\* the crawler has found a select clause in a statement; Rule_HNL_A002 reads no
\* setting and no memory
InitOrder ==
    /\ alias_usage_style = "always"
    /\ memory = EmptyMemory
    /\ file = <<>>
    /\ results = <<>>
    /\ phase = "order"
    /\ fixed = <<>>
    /\ rerun = <<>>
    /\ \E clause \in OrderClauses : \E comments \in CommentSets(clause) :
          stmt = <<[clause |-> clause, comments |-> comments]>>
    /\ ordering = <<>>
    /\ lint = <<>>

\* the crawler calls Rule_HNL_A002._eval on the select clause
EvalOrder ==
    /\ phase = "order"
    /\ phase' = "ordered"
    /\ ordering' = A002Eval(stmt[1].clause, stmt[1].comments)
    /\ UNCHANGED <<alias_usage_style, memory, file, results, fixed, rerun, stmt, lint>>

NextOrder == EvalOrder

SpecOrder == InitOrder /\ [][NextOrder]_vars

-----------------------------------------------------------------------------
(* Properties of the ordering evaluation                                   *)

\* the pairs of the evaluated clause that take part in the ordering check
Observed == Identifiers(stmt[1].clause, LinePositionsToIgnore(stmt[1].comments), 1)

\* the identifier is one of the two SourceSystem keys
IsSourceSystemKey(name) == name \in {"BKSourceSystem", "SourceSystemID"}

\* C6: in the canonical order BKSourceSystem and SourceSystemID (priority 2)
\* come after every other column that starts with BK or ends with ID
\* (priorities 0 and 1) and before every remaining column (priority 3 and
\* SourceSystemCode).
C6_SourceSystemKeysThird ==
    phase = "ordered" =>
        LET canonical == SortedByKey(Observed) IN
        \A i, j \in 1..Len(canonical) :
            (IsSourceSystemKey(canonical[i][1]) /\ ~IsSourceSystemKey(canonical[j][1])) =>
                IF StartsWith(canonical[j][1], "BK") \/ EndsWith(canonical[j][1], "ID")
                THEN j < i
                ELSE i < j

\* the keys of the items of a list
Keys(items) == [i \in 1..Len(items) |-> custom_sort_key(items[i])]

\* the index of item i in the stable sort by key of the items with the given
\* keys: behind the items of smaller key and the earlier items of equal key
CanonicalIndex(keys, i) ==
    Cardinality({j \in 1..Len(keys) : KeyLess(keys[j], keys[i])})
    + Cardinality({j \in 1..i : keys[j] = keys[i]})

\* the nodes of the items that are not at their canonical index, in order
Displaced(items) ==
    LET keys == Keys(items)
        idx == {i \in 1..Len(items) : CanonicalIndex(keys, i) # i}
    IN [k \in 1..Cardinality(idx) |->
           items[CHOOSE i \in idx : Cardinality({j \in idx : j <= i}) = k][2]]

\* no item of the list has a smaller key than an item before it
InCanonicalOrder(items) ==
    LET keys == Keys(items) IN
    \A i, j \in 1..Len(items) : i < j => ~KeyLess(keys[j], keys[i])

\* C7: Rule_HNL_A002 reports exactly the columns whose pair is not at its index
\* of the stable sort by (priority, lower-cased identifier); a clause in
\* canonical order, duplicates and names equal up to case included, gives no
\* violation; the documented anti-pattern gives five, one per column.
C7_ReportsDisplacedColumns ==
    phase = "ordered" =>
        /\ Anchors(ordering) = Displaced(Observed)
        /\ InCanonicalOrder(Observed) => ordering = <<>>
        /\ (stmt[1].clause = AntiPattern /\ stmt[1].comments = {}) =>
              Anchors(ordering) = <<1, 2, 3, 4, 5>>
        /\ \A v \in 1..Len(ordering) :
              ordering[v].description = "Column should be ordered based on ordering scheme."

\* C7 witness: the documented anti-pattern was evaluated and every one of its
\* five columns is reported.
C7_Witness ==
    /\ phase = "ordered"
    /\ stmt[1].clause = AntiPattern
    /\ stmt[1].comments = {}
    /\ Len(ordering) = 5

\* the element starts on a line with a `-- noqa` or `-- noqa: HNL_A002` comment
Suppressed(element, comments) ==
    \E c \in comments : c.line = element.line /\ (c.raw = "-- noqa" \/ c.raw = "-- noqa: HNL_A002")

\* C8: a column on a line with a `-- noqa` or `-- noqa: HNL_A002` comment is
\* never reported, and the violations of the clause are those of the clause with
\* the suppressed columns deleted.
C8_SuppressedColumnsLeaveTheCheck ==
    phase = "ordered" =>
        LET clause == stmt[1].clause
            comments == stmt[1].comments
            kept == SelectSeq(clause, LAMBDA e : ~Suppressed(e, comments))
        IN /\ \A i \in 1..Len(clause) : \A v \in 1..Len(ordering) :
                 Suppressed(clause[i], comments) => ordering[v].anchor # clause[i].node
           /\ ordering = A002Eval(kept, {})

\* C8 witness: a column that would be reported without its comment is
\* suppressed, and the columns that remain are still reported.
C8_Witness ==
    /\ phase = "ordered"
    /\ ordering # <<>>
    /\ \E i \in 1..Len(stmt[1].clause) :
        /\ Suppressed(stmt[1].clause[i], stmt[1].comments)
        /\ \E v \in 1..Len(A002Eval(stmt[1].clause, {})) :
              A002Eval(stmt[1].clause, {})[v].anchor = stmt[1].clause[i].node

-----------------------------------------------------------------------------
(* Both rules on one select clause                                         *)

\* `$1 AS BKPos`
PositionalAliased == [column_reference |-> <<Ref(<<>>, <<>>)>>,
                      alias_expression |-> <<Ref(<<>>, <<"BKPos">>)>>]

\* `"ZoneID"`: a quoted identifier, the quotes are part of its raw text
QuotedColumn == [column_reference |-> <<Ref(<<"\"ZoneID\"">>, <<>>)>>, alias_expression |-> <<>>]

\* the column shapes both rules look at
LintShapes == {PositionalColumn, PositionalAliased, SimpleColumn, AliasedColumn,
               QuotedColumn, ExpressionColumn}

\* the select clauses both rules look at
LintClauses == {MakeClause(sh) : sh \in SeqsUpTo(LintShapes, MaxLintCols)}

\* the crawler calls both rules on a select clause, each with a new memory
LintClause(clause) ==
    /\ lint' = <<[clause |-> clause,
                  a001 |-> A001Eval(alias_usage_style, EmptyMemory, clause),
                  a002 |-> A002Eval(clause, {})]>>
    /\ UNCHANGED <<alias_usage_style, memory, file, results, phase, fixed, rerun, stmt, ordering>>

\* one select clause per behaviour
NextLint ==
    /\ lint = <<>>
    /\ \E clause \in LintClauses : LintClause(clause)

SpecLint == Init /\ [][NextLint]_vars

-----------------------------------------------------------------------------
(* Properties of columns without identifier                                *)

\* the element is a reference without quoted or naked identifier, like `$1`
IsPositional(element) ==
    /\ element.column_reference # <<>>
    /\ element.column_reference[1].naked_identifier = <<>>
    /\ element.column_reference[1].quoted_identifier = <<>>

\* the clause without its element i
Without(clause, i) == SubSeq(clause, 1, i - 1) \o SubSeq(clause, i + 1, Len(clause))

\* a LintResult of the list is anchored on the node
Flagged(violations, node) == \E v \in 1..Len(violations) : violations[v].anchor = node

\* C9 as stated: a column whose reference has no quoted or naked identifier is
\* skipped by both rules: neither anchors a LintResult on it, and the results
\* for the other columns are those of the clause without it.
C9_AsStated ==
    lint # <<>> =>
        LET clause == lint[1].clause IN
        \A i \in 1..Len(clause) :
            IsPositional(clause[i]) =>
                LET others == A001Eval(alias_usage_style, EmptyMemory, Without(clause, i)) IN
                /\ ~Flagged(lint[1].a001.violations, clause[i].node)
                /\ ~Flagged(lint[1].a002, clause[i].node)
                /\ others.violations = lint[1].a001.violations
                /\ others.raised = lint[1].a001.raised
                /\ A002Eval(Without(clause, i), {}) = lint[1].a002

\* the decision of a clause linted with a new memory: fixed under always,
\* otherwise that of its first column
ExpectedUsage(style, clause) ==
    IF style = "always" \/ HasAlias(clause[1]) THEN "yes" ELSE "no"

\* C9 amended: a column whose reference has no quoted or naked identifier is
\* skipped by Rule_HNL_A002 when it bears no alias: no LintResult is anchored on
\* it and the results are those of the clause without it.  Rule_HNL_A001 does
\* not skip it: under the three policies it is flagged exactly when its alias
\* presence deviates from the decision, only never with an add-alias fix.
C9_SkippedByOrderingOnly ==
    lint # <<>> =>
        LET clause == lint[1].clause
            a001 == lint[1].a001
        IN \A i \in 1..Len(clause) :
            IsPositional(clause[i]) =>
                /\ ~HasAlias(clause[i]) =>
                      /\ ~Flagged(lint[1].a002, clause[i].node)
                      /\ A002Eval(Without(clause, i), {}) = lint[1].a002
                /\ \A v \in 1..Len(a001.violations) :
                      a001.violations[v].anchor = clause[i].node =>
                          \A f \in 1..Len(a001.violations[v].fixes) :
                              a001.violations[v].fixes[f].kind # "create_after"
                /\ alias_usage_style \in {"always", "consistent_clause", "consistent_file"} =>
                      /\ ~a001.raised
                      /\ Flagged(a001.violations, clause[i].node)
                            <=> (HasAlias(clause[i]) # (ExpectedUsage(alias_usage_style, clause) = "yes"))

\* C9 witness: under always a `$1` without alias is flagged by Rule_HNL_A001
\* with no fix, while Rule_HNL_A002 reports other columns of the clause and
\* not this one.
C9_Witness ==
    /\ lint # <<>>
    /\ alias_usage_style = "always"
    /\ \E i \in 1..Len(lint[1].clause) :
        /\ IsPositional(lint[1].clause[i])
        /\ ~HasAlias(lint[1].clause[i])
        /\ \E v \in 1..Len(lint[1].a001.violations) :
              /\ lint[1].a001.violations[v].anchor = lint[1].clause[i].node
              /\ lint[1].a001.violations[v].fixes = <<>>
        /\ lint[1].a002 # <<>>
        /\ ~Flagged(lint[1].a002, lint[1].clause[i].node)

=============================================================================
